---- MODULE Spec2Model ----
(***************************************************************************)
(* implementors/core/convert/trait.TryFrom.js                              *)
(*                                                                         *)
(* The script is one immediately-invoked function: it builds the local     *)
(* table `implementors` with four key assignments (lines 1-5) and then     *)
(* either calls window.register_implementors with it or stores it in       *)
(* window.pending_implementors (line 6).                                   *)
(*                                                                         *)
(* JavaScript values are modelled as follows.  undefined, null and a       *)
(* function are the tagged records Undefined, Null and Fn.  An object is   *)
(* the function from its own property names to their values, so {} is the  *)
(* empty function <<>>.  An array is a sequence.  A fully-qualified type   *)
(* identifier "a::b::c" is written as the sequence of its path segments    *)
(* <<"a", "b", "c">>.                                                      *)
(***************************************************************************)
EXTENDS Integers, Sequences, FiniteSets, TLC

\* Number of times the page may load the script in one behaviour.
MaxLoads == 2

VARIABLES
  pc,            \* position of the script: "idle" before the first load,
                 \* "l2".."l6" = next source line to run, "in_hook" while the
                 \* hook's body runs, "done" / "threw" after the load
  implementors,  \* the local variable of the function (line 1)
  window,        \* the global object: register_implementors, pending_implementors
  err,           \* the exception that ended the current load, or "none"
  loads,         \* number of loads started
  calls,         \* history: argument lists of the hook calls made by the current load
  slotWrites,    \* history: writes to window.pending_implementors by the current load
  hookAtLoad,    \* history: window.register_implementors when the current load began
  pendingAtLoad  \* history: window.pending_implementors when the current load began

vars == <<pc, implementors, window, err, loads, calls, slotWrites, hookAtLoad, pendingAtLoad>>

-----------------------------------------------------------------------------
(* The records of the literal, in source order.                            *)

\* line 2, implementors["quinn_proto"]
VarIntFromU64 ==
  [text |-> "impl <a class=\"trait\" href=\"https://doc.rust-lang.org/nightly/core/convert/trait.TryFrom.html\" title=\"trait core::convert::TryFrom\">TryFrom</a>&lt;<a class=\"primitive\" href=\"https://doc.rust-lang.org/nightly/std/primitive.u64.html\">u64</a>&gt; for <a class=\"struct\" href=\"quinn_proto/struct.VarInt.html\" title=\"struct quinn_proto::VarInt\">VarInt</a>",
   synthetic |-> FALSE,
   types |-> << <<"quinn_proto", "varint", "VarInt">> >>]

\* line 2, implementors["quinn_proto"]
VarIntFromU128 ==
  [text |-> "impl <a class=\"trait\" href=\"https://doc.rust-lang.org/nightly/core/convert/trait.TryFrom.html\" title=\"trait core::convert::TryFrom\">TryFrom</a>&lt;<a class=\"primitive\" href=\"https://doc.rust-lang.org/nightly/std/primitive.u128.html\">u128</a>&gt; for <a class=\"struct\" href=\"quinn_proto/struct.VarInt.html\" title=\"struct quinn_proto::VarInt\">VarInt</a>",
   synthetic |-> FALSE,
   types |-> << <<"quinn_proto", "varint", "VarInt">> >>]

\* line 2, implementors["quinn_proto"]
VarIntFromUsize ==
  [text |-> "impl <a class=\"trait\" href=\"https://doc.rust-lang.org/nightly/core/convert/trait.TryFrom.html\" title=\"trait core::convert::TryFrom\">TryFrom</a>&lt;<a class=\"primitive\" href=\"https://doc.rust-lang.org/nightly/std/primitive.usize.html\">usize</a>&gt; for <a class=\"struct\" href=\"quinn_proto/struct.VarInt.html\" title=\"struct quinn_proto::VarInt\">VarInt</a>",
   synthetic |-> FALSE,
   types |-> << <<"quinn_proto", "varint", "VarInt">> >>]

\* line 2, implementors["quinn_proto"]
IdleTimeoutFromDuration ==
  [text |-> "impl <a class=\"trait\" href=\"https://doc.rust-lang.org/nightly/core/convert/trait.TryFrom.html\" title=\"trait core::convert::TryFrom\">TryFrom</a>&lt;<a class=\"struct\" href=\"https://doc.rust-lang.org/nightly/core/time/struct.Duration.html\" title=\"struct core::time::Duration\">Duration</a>&gt; for <a class=\"struct\" href=\"quinn_proto/struct.IdleTimeout.html\" title=\"struct quinn_proto::IdleTimeout\">IdleTimeout</a>",
   synthetic |-> FALSE,
   types |-> << <<"quinn_proto", "config", "IdleTimeout">> >>]

\* line 3, implementors["rustls"]
MessageFromPlainMessage ==
  [text |-> "impl <a class=\"trait\" href=\"https://doc.rust-lang.org/nightly/core/convert/trait.TryFrom.html\" title=\"trait core::convert::TryFrom\">TryFrom</a>&lt;<a class=\"struct\" href=\"rustls/internal/msgs/message/struct.PlainMessage.html\" title=\"struct rustls::internal::msgs::message::PlainMessage\">PlainMessage</a>&gt; for <a class=\"struct\" href=\"rustls/internal/msgs/message/struct.Message.html\" title=\"struct rustls::internal::msgs::message::Message\">Message</a>",
   synthetic |-> FALSE,
   types |-> << <<"rustls", "msgs", "message", "Message">> >>]

\* line 3, implementors["rustls"]
ServerNameFromStr ==
  [text |-> "impl <a class=\"trait\" href=\"https://doc.rust-lang.org/nightly/core/convert/trait.TryFrom.html\" title=\"trait core::convert::TryFrom\">TryFrom</a>&lt;&amp;'_ <a class=\"primitive\" href=\"https://doc.rust-lang.org/nightly/std/primitive.str.html\">str</a>&gt; for <a class=\"enum\" href=\"rustls/client/enum.ServerName.html\" title=\"enum rustls::client::ServerName\">ServerName</a>",
   synthetic |-> FALSE,
   types |-> << <<"rustls", "client", "client_conn", "ServerName">> >>]

\* line 4, implementors["tinyvec"]
ArrayVecFromSlice ==
  [text |-> "impl&lt;T, A&gt; <a class=\"trait\" href=\"https://doc.rust-lang.org/nightly/core/convert/trait.TryFrom.html\" title=\"trait core::convert::TryFrom\">TryFrom</a>&lt;<a class=\"primitive\" href=\"https://doc.rust-lang.org/nightly/core/primitive.slice.html\">&amp;'_ [T]</a>&gt; for <a class=\"struct\" href=\"tinyvec/struct.ArrayVec.html\" title=\"struct tinyvec::ArrayVec\">ArrayVec</a>&lt;A&gt; <span class=\"where fmt-newline\">where<br>&nbsp;&nbsp;&nbsp;&nbsp;T: <a class=\"trait\" href=\"https://doc.rust-lang.org/nightly/core/clone/trait.Clone.html\" title=\"trait core::clone::Clone\">Clone</a> + <a class=\"trait\" href=\"https://doc.rust-lang.org/nightly/core/default/trait.Default.html\" title=\"trait core::default::Default\">Default</a>,<br>&nbsp;&nbsp;&nbsp;&nbsp;A: <a class=\"trait\" href=\"tinyvec/trait.Array.html\" title=\"trait tinyvec::Array\">Array</a>&lt;Item = T&gt;,&nbsp;</span>",
   synthetic |-> FALSE,
   types |-> << <<"tinyvec", "arrayvec", "ArrayVec">> >>]

\* line 5, implementors["webpki"]
EndEntityCertFromBytes ==
  [text |-> "impl&lt;'a&gt; <a class=\"trait\" href=\"https://doc.rust-lang.org/nightly/core/convert/trait.TryFrom.html\" title=\"trait core::convert::TryFrom\">TryFrom</a>&lt;<a class=\"primitive\" href=\"https://doc.rust-lang.org/nightly/std/primitive.slice.html\">&amp;'a [</a><a class=\"primitive\" href=\"https://doc.rust-lang.org/nightly/std/primitive.u8.html\">u8</a><a class=\"primitive\" href=\"https://doc.rust-lang.org/nightly/std/primitive.slice.html\">]</a>&gt; for <a class=\"struct\" href=\"webpki/struct.EndEntityCert.html\" title=\"struct webpki::EndEntityCert\">EndEntityCert</a>&lt;'a&gt;",
   synthetic |-> FALSE,
   types |-> << <<"webpki", "end_entity", "EndEntityCert">> >>]

\* Variant of the last record of line 5 with a misspelt field name.
TimeFromSystemTimeMisnamed ==
  [text |-> "impl TryFrom<SystemTime> for Time",
   synthetic |-> FALSE,
   type |-> << <<"webpki", "time", "Time">> >>]

\* line 5, implementors["webpki"]
TimeFromSystemTime ==
  [text |-> "impl <a class=\"trait\" href=\"https://doc.rust-lang.org/nightly/core/convert/trait.TryFrom.html\" title=\"trait core::convert::TryFrom\">TryFrom</a>&lt;<a class=\"struct\" href=\"https://doc.rust-lang.org/nightly/std/time/struct.SystemTime.html\" title=\"struct std::time::SystemTime\">SystemTime</a>&gt; for <a class=\"struct\" href=\"webpki/struct.Time.html\" title=\"struct webpki::Time\">Time</a>",
   synthetic |-> FALSE,
   types |-> << <<"webpki", "time", "Time">> >>]

-----------------------------------------------------------------------------
(* The right-hand sides of the four assignments (lines 2-5).               *)

QuinnProtoImpls == <<VarIntFromU64, VarIntFromU128, VarIntFromUsize, IdleTimeoutFromDuration>>

RustlsImpls == <<MessageFromPlainMessage, ServerNameFromStr>>

TinyvecImpls == <<ArrayVecFromSlice>>

WebpkiImpls == <<EndEntityCertFromBytes, TimeFromSystemTime>>

\* The table the four assignments of lines 2-5 spell out, as one literal.
Table ==
  [quinn_proto |-> QuinnProtoImpls,
   rustls      |-> RustlsImpls,
   tinyvec     |-> TinyvecImpls,
   webpki      |-> WebpkiImpls]

-----------------------------------------------------------------------------
(* JavaScript values and the operations line 6 applies to them.            *)

Undefined == [kind |-> "undefined"]

Null == [kind |-> "null"]

Fn == [kind |-> "function"]

\* An object that is not this script's table (truthy, not callable): what
\* another implementors script may have left in a global.
OtherTable == [other_crate |-> <<>>]

\* Values the page may have put in window.register_implementors.
HookValues == {Undefined, Null, Fn, OtherTable}

\* Values window.pending_implementors may hold before the first load.
PendingValues == {Undefined, OtherTable}

\* ToBoolean, as applied by `if (window.register_implementors)`.
ToBoolean(v) == v \notin {Undefined, Null}

\* IsCallable, as applied by the call `window.register_implementors(...)`.
IsCallable(v) == v = Fn

\* obj[k] = v : adds the property k, or replaces its value.
Put(obj, k, v) == [x \in (DOMAIN obj) \cup {k} |-> IF x = k THEN v ELSE obj[x]]

-----------------------------------------------------------------------------
(* The state before the script is loaded: the page may or may not have     *)
(* defined the hook, and the pending slot may hold an earlier value.       *)

Init ==
  /\ pc = "idle"
  /\ implementors = <<>>
  /\ \E h \in HookValues, p \in PendingValues :
       /\ window = [register_implementors |-> h, pending_implementors |-> p]
       /\ hookAtLoad = h
       /\ pendingAtLoad = p
  /\ err = "none"
  /\ loads = 0
  /\ calls = <<>>
  /\ slotWrites = 0

\* Line 1: (function() {var implementors = {};
Enter ==
  /\ pc \in {"idle", "done", "threw"}
  /\ loads < MaxLoads
  /\ pc' = "l2"
  /\ implementors' = <<>>
  /\ err' = "none"
  /\ loads' = loads + 1
  /\ calls' = <<>>
  /\ slotWrites' = 0
  /\ hookAtLoad' = window.register_implementors
  /\ pendingAtLoad' = window.pending_implementors
  /\ UNCHANGED window

\* Variant of line 2 that emits the records in reverse order.
AssignQuinnProtoReversed ==
  /\ pc = "l2"
  /\ implementors' = Put(implementors, "quinn_proto",
                         [i \in 1..Len(QuinnProtoImpls) |->
                            QuinnProtoImpls[Len(QuinnProtoImpls) + 1 - i]])
  /\ pc' = "l3"
  /\ UNCHANGED <<window, err, loads, calls, slotWrites, hookAtLoad, pendingAtLoad>>

\* Line 2: implementors["quinn_proto"] = [...];
AssignQuinnProto ==
  /\ pc = "l2"
  /\ implementors' = Put(implementors, "quinn_proto", QuinnProtoImpls)
  /\ pc' = "l3"
  /\ UNCHANGED <<window, err, loads, calls, slotWrites, hookAtLoad, pendingAtLoad>>

\* Line 3: implementors["rustls"] = [...];
AssignRustls ==
  /\ pc = "l3"
  /\ implementors' = Put(implementors, "rustls", RustlsImpls)
  /\ pc' = "l4"
  /\ UNCHANGED <<window, err, loads, calls, slotWrites, hookAtLoad, pendingAtLoad>>

\* Variant of line 4 that reuses the key of line 3.
AssignTinyvecWrongKey ==
  /\ pc = "l4"
  /\ implementors' = Put(implementors, "rustls", TinyvecImpls)
  /\ pc' = "l5"
  /\ UNCHANGED <<window, err, loads, calls, slotWrites, hookAtLoad, pendingAtLoad>>

\* Line 4: implementors["tinyvec"] = [...];
AssignTinyvec ==
  /\ pc = "l4"
  /\ implementors' = Put(implementors, "tinyvec", TinyvecImpls)
  /\ pc' = "l5"
  /\ UNCHANGED <<window, err, loads, calls, slotWrites, hookAtLoad, pendingAtLoad>>

\* Variant of line 5 that files another crate's records under "webpki".
AssignWebpkiForeignRecords ==
  /\ pc = "l5"
  /\ implementors' = Put(implementors, "webpki", RustlsImpls)
  /\ pc' = "l6"
  /\ UNCHANGED <<window, err, loads, calls, slotWrites, hookAtLoad, pendingAtLoad>>

\* Line 5: implementors["webpki"] = [...];
AssignWebpki ==
  /\ pc = "l5"
  /\ implementors' = Put(implementors, "webpki", WebpkiImpls)
  /\ pc' = "l6"
  /\ UNCHANGED <<window, err, loads, calls, slotWrites, hookAtLoad, pendingAtLoad>>

\* Variant of the then-branch that registers the table twice.
CallHookTwice ==
  /\ pc = "l6"
  /\ ToBoolean(window.register_implementors)
  /\ IsCallable(window.register_implementors)
  /\ calls' = calls \o << <<implementors>>, <<implementors>> >>
  /\ pc' = "in_hook"
  /\ UNCHANGED <<implementors, window, err, loads, slotWrites, hookAtLoad, pendingAtLoad>>

\* Variant of the then-branch that also stores the table in the pending slot.
CallHookAndStore ==
  /\ pc = "l6"
  /\ ToBoolean(window.register_implementors)
  /\ IsCallable(window.register_implementors)
  /\ calls' = Append(calls, <<implementors>>)
  /\ window' = [window EXCEPT !.pending_implementors = implementors]
  /\ slotWrites' = slotWrites + 1
  /\ pc' = "in_hook"
  /\ UNCHANGED <<implementors, err, loads, hookAtLoad, pendingAtLoad>>

\* Line 6, then-branch with a callable hook:
\*   if (window.register_implementors) {window.register_implementors(implementors);}
CallHook ==
  /\ pc = "l6"
  /\ ToBoolean(window.register_implementors)
  /\ IsCallable(window.register_implementors)
  /\ calls' = Append(calls, <<implementors>>)
  /\ pc' = "in_hook"
  /\ UNCHANGED <<implementors, window, err, loads, slotWrites, hookAtLoad, pendingAtLoad>>

\* Variant of the then-branch that treats a non-callable value like an
\* absent hook (a typeof guard) instead of calling it.
CallNonCallableFallsBack ==
  /\ pc = "l6"
  /\ ToBoolean(window.register_implementors)
  /\ ~IsCallable(window.register_implementors)
  /\ window' = [window EXCEPT !.pending_implementors = implementors]
  /\ slotWrites' = slotWrites + 1
  /\ pc' = "done"
  /\ UNCHANGED <<implementors, err, loads, calls, hookAtLoad, pendingAtLoad>>

\* Line 6, then-branch with a truthy value that is not callable: the call
\* expression throws a TypeError, which nothing in the script catches.
CallNonCallable ==
  /\ pc = "l6"
  /\ ToBoolean(window.register_implementors)
  /\ ~IsCallable(window.register_implementors)
  /\ err' = "TypeError"
  /\ pc' = "threw"
  /\ UNCHANGED <<implementors, window, loads, calls, slotWrites, hookAtLoad, pendingAtLoad>>

\* Variant of the else-branch that stores a fresh empty object.
StorePendingEmpty ==
  /\ pc = "l6"
  /\ ~ToBoolean(window.register_implementors)
  /\ window' = [window EXCEPT !.pending_implementors = <<>>]
  /\ slotWrites' = slotWrites + 1
  /\ pc' = "done"
  /\ UNCHANGED <<implementors, err, loads, calls, hookAtLoad, pendingAtLoad>>

\* Variant of the else-branch that empties one entry of the table before
\* storing it.
StorePendingMutated ==
  /\ pc = "l6"
  /\ ~ToBoolean(window.register_implementors)
  /\ implementors' = Put(implementors, "tinyvec", <<>>)
  /\ window' = [window EXCEPT !.pending_implementors = implementors']
  /\ slotWrites' = slotWrites + 1
  /\ pc' = "done"
  /\ UNCHANGED <<err, loads, calls, hookAtLoad, pendingAtLoad>>

\* Line 6, else-branch: else {window.pending_implementors = implementors;}})()
StorePending ==
  /\ pc = "l6"
  /\ ~ToBoolean(window.register_implementors)
  /\ window' = [window EXCEPT !.pending_implementors = implementors]
  /\ slotWrites' = slotWrites + 1
  /\ pc' = "done"
  /\ UNCHANGED <<implementors, err, loads, calls, hookAtLoad, pendingAtLoad>>

\* Variant in which the script stores the table after the hook returned.
HookReturnsThenStore ==
  /\ pc = "in_hook"
  /\ window' = [window EXCEPT !.pending_implementors = implementors]
  /\ slotWrites' = slotWrites + 1
  /\ pc' = "done"
  /\ UNCHANGED <<implementors, err, loads, calls, hookAtLoad, pendingAtLoad>>

\* The hook's body returns; the statement, the branch and the function end.
HookReturns ==
  /\ pc = "in_hook"
  /\ pc' = "done"
  /\ UNCHANGED <<implementors, window, err, loads, calls, slotWrites, hookAtLoad, pendingAtLoad>>

\* The hook's body throws; the script has no try/catch, so the load ends
\* with the hook's exception.
HookThrows ==
  /\ pc = "in_hook"
  /\ err' = "HookError"
  /\ pc' = "threw"
  /\ UNCHANGED <<implementors, window, loads, calls, slotWrites, hookAtLoad, pendingAtLoad>>

\* The page (re)defines window.register_implementors.  Scripts run to
\* completion on one thread, so the page acts only while no load is running.
HostSetHook ==
  /\ pc \in {"idle", "done", "threw"}
  /\ \E h \in HookValues :
       /\ h # window.register_implementors
       /\ window' = [window EXCEPT !.register_implementors = h]
  /\ UNCHANGED <<pc, implementors, err, loads, calls, slotWrites, hookAtLoad, pendingAtLoad>>

Next ==
  \/ Enter
  \/ AssignQuinnProto
  \/ AssignRustls
  \/ AssignTinyvec
  \/ AssignWebpki
  \/ CallHook
  \/ CallNonCallable
  \/ StorePending
  \/ HookReturns
  \/ HookThrows
  \/ HostSetHook

Spec == Init /\ [][Next]_vars

-----------------------------------------------------------------------------
(* Vocabulary of the properties.                                           *)

Keys == {"quinn_proto", "rustls", "tinyvec", "webpki"}

\* The current load has ended, normally or with an exception.
Ended == pc \in {"done", "threw"}

\* The current load has passed its table to the hook.
HookInvoked == calls # <<>>

\* The tables the current load has handed out: the arguments of its hook
\* calls and, once it has written the pending slot, the slot's value.
Delivered ==
  {calls[i][1] : i \in DOMAIN calls}
    \cup (IF slotWrites > 0 THEN {window.pending_implementors} ELSE {})

\* The last path segment of a type identifier.
Last(id) == id[Len(id)]

-----------------------------------------------------------------------------
C2_NoHookStoresPending ==
  (Ended /\ ~ToBoolean(hookAtLoad)) =>
    /\ pc = "done"
    /\ window.pending_implementors = Table
    /\ calls = <<>>

C2_Witness ==
  /\ pc = "done"
  /\ hookAtLoad = Undefined
  /\ window.register_implementors = Fn
  /\ window.pending_implementors = Table
  /\ calls = <<>>

\* C3 as stated: in every host state the load ends without an error, having
\* either invoked the hook with the table or stored the table in the slot.
C3_LoadNeverFails ==
  /\ pc # "threw"
  /\ pc = "done" => (calls = << <<Table>> >> \/ window.pending_implementors = Table)

\* C3 amended: a load fails in exactly two ways.  A truthy value that is not
\* callable makes line 6 throw a TypeError with no hook call and no write to
\* the slot; an exception of the hook's body ends the load after the hook got
\* the table.  A load that completes has a falsy hook and the table in the
\* slot, or a callable hook that was invoked with the table.
C3_FailureModes ==
  /\ pc = "threw" =>
       \/ /\ err = "TypeError"
          /\ ToBoolean(hookAtLoad) /\ ~IsCallable(hookAtLoad)
          /\ calls = <<>>
          /\ slotWrites = 0
          /\ window.pending_implementors = pendingAtLoad
       \/ /\ err = "HookError"
          /\ IsCallable(hookAtLoad)
          /\ calls = << <<Table>> >>
  /\ pc = "done" =>
       /\ err = "none"
       /\ \/ ~ToBoolean(hookAtLoad) /\ window.pending_implementors = Table
          \/ IsCallable(hookAtLoad) /\ calls = << <<Table>> >>

C3_Witness ==
  /\ pc = "threw"
  /\ err = "TypeError"
  /\ hookAtLoad = OtherTable

\* C4: every table the script hands out has exactly the keys quinn_proto,
\* rustls, tinyvec and webpki, with 4, 2, 1 and 2 records.
C4_KeysAndCardinality ==
  \A t \in Delivered :
    /\ DOMAIN t = Keys
    /\ Cardinality(DOMAIN t) = 4
    /\ Len(t["quinn_proto"]) = 4
    /\ Len(t["rustls"]) = 2
    /\ Len(t["tinyvec"]) = 1
    /\ Len(t["webpki"]) = 2

C4_Witness ==
  /\ slotWrites = 1
  /\ Delivered # {}
  /\ \A t \in Delivered : Len(t["tinyvec"]) = 1

\* C5: in every table the script hands out the records of each key are in
\* the authored order: VarInt from u64, u128, usize, then IdleTimeout; Message
\* then ServerName; ArrayVec; EndEntityCert then Time.
C5_AuthoredOrder ==
  \A t \in Delivered :
    /\ t["quinn_proto"][1] = VarIntFromU64
    /\ t["quinn_proto"][2] = VarIntFromU128
    /\ t["quinn_proto"][3] = VarIntFromUsize
    /\ t["quinn_proto"][4] = IdleTimeoutFromDuration
    /\ [i \in 1..4 |-> Last(t["quinn_proto"][i].types[1])]
         = <<"VarInt", "VarInt", "VarInt", "IdleTimeout">>
    /\ t["rustls"][1] = MessageFromPlainMessage
    /\ t["rustls"][2] = ServerNameFromStr
    /\ [i \in 1..2 |-> Last(t["rustls"][i].types[1])] = <<"Message", "ServerName">>
    /\ t["tinyvec"][1] = ArrayVecFromSlice
    /\ t["webpki"][1] = EndEntityCertFromBytes
    /\ t["webpki"][2] = TimeFromSystemTime
    /\ [i \in 1..2 |-> Last(t["webpki"][i].types[1])] = <<"EndEntityCert", "Time">>

C5_Witness ==
  /\ pc = "in_hook"
  /\ \E t \in Delivered : Last(t["quinn_proto"][4].types[1]) = "IdleTimeout"

\* C6 as stated: every completed load has written the pending slot exactly
\* once.
C6_SlotWrittenOncePerLoad ==
  pc = "done" => slotWrites = 1

\* C6 amended: a load writes the pending slot at most once: exactly once when
\* the hook is falsy, never when it is truthy.  No step of the script changes
\* window.register_implementors, and the slot changes only by that one write.
C6_SlotWrittenAtMostOnce ==
  /\ [](/\ slotWrites <= 1
        /\ pc = "done" => slotWrites = (IF ToBoolean(hookAtLoad) THEN 0 ELSE 1)
        /\ pc = "threw" => slotWrites = 0)
  /\ [][pc' # pc =>
          /\ window'.register_implementors = window.register_implementors
          /\ \/ window'.pending_implementors = window.pending_implementors
             \/ slotWrites' = slotWrites + 1]_vars

C6_Witness ==
  /\ pc = "done"
  /\ ToBoolean(hookAtLoad)
  /\ slotWrites = 0
  /\ loads = 1

\* C7: once the four assignments have run the script does not write to the
\* table again, and every table it hands out equals the source literal.
C7_TableImmutable ==
  /\ [](\A t \in Delivered : t = Table)
  /\ [][(pc \in {"l6", "in_hook"}) => (implementors' = implementors)]_vars

C7_Witness ==
  /\ pc = "done"
  /\ implementors = Table
  /\ Delivered = {Table}

\* C8: every record of every key of a table the script hands out has exactly
\* the fields text, synthetic and types; text is a string, synthetic a
\* boolean, types a sequence of identifiers of at least two path segments.
C8_RecordShape ==
  \A t \in Delivered : \A k \in DOMAIN t : \A i \in DOMAIN t[k] :
    /\ DOMAIN t[k][i] = {"text", "synthetic", "types"}
    /\ t[k][i].text \in STRING
    /\ t[k][i].synthetic \in BOOLEAN
    /\ t[k][i].types \in Seq(Seq(STRING))
    /\ \A j \in DOMAIN t[k][i].types : Len(t[k][i].types[j]) >= 2

C8_Witness ==
  /\ Ended
  /\ \E t \in Delivered : \E k \in DOMAIN t : \E i \in DOMAIN t[k] :
       DOMAIN t[k][i] = {"text", "synthetic", "types"}

\* C9 as stated: every load ends with exactly one of two outcomes: the hook
\* invoked and the pending slot as it was before the load, or the slot
\* written and the hook not invoked.
C9_ExactlyOneOutcome ==
  Ended =>
    \/ /\ HookInvoked
       /\ slotWrites = 0
       /\ window.pending_implementors = pendingAtLoad
    \/ /\ ~HookInvoked
       /\ slotWrites = 1

\* C9 amended: the two outcomes never happen both, and an invoked hook leaves
\* the slot as it was before the load.  Neither happens only when the hook is
\* a truthy value that is not callable: line 6 then throws a TypeError and the
\* load ends with no hook call and the slot unchanged.
C9_OutcomesExclusive ==
  /\ ~(HookInvoked /\ slotWrites > 0)
  /\ HookInvoked => window.pending_implementors = pendingAtLoad
  /\ Ended =>
       \/ HookInvoked /\ slotWrites = 0
       \/ ~HookInvoked /\ slotWrites = 1
       \/ /\ ~HookInvoked
          /\ slotWrites = 0
          /\ pc = "threw"
          /\ err = "TypeError"
          /\ ToBoolean(hookAtLoad) /\ ~IsCallable(hookAtLoad)
          /\ window.pending_implementors = pendingAtLoad

C9_Witness ==
  /\ pc = "done"
  /\ HookInvoked
  /\ pendingAtLoad = OtherTable
  /\ window.pending_implementors = OtherTable

\* C10: in every record of a table the script hands out synthetic is false,
\* types holds exactly one identifier, and the first path segment of that
\* identifier is the key the record is stored under.
C10_CrateMatchesKey ==
  \A t \in Delivered : \A k \in DOMAIN t : \A i \in DOMAIN t[k] :
    /\ t[k][i].synthetic = FALSE
    /\ Len(t[k][i].types) = 1
    /\ t[k][i].types[1][1] = k

C10_Witness ==
  /\ Delivered # {}
  /\ \A t \in Delivered : t["webpki"][2].types[1][1] = "webpki"

====
